---- MODULE Spec2Model ----
(***************************************************************************)
(* Payment-Tracker: the synchronisation of extracted payment records into  *)
(* the external store (src/src/notion_client.py, src/src/sheets_client.py) *)
(* and the mailbox extraction run (src/src/paytment_extractor.py).         *)
(***************************************************************************)
EXTENDS Integers, Sequences, FiniteSets, TLC

(***************************************************************************)
(* Bounds of the model.                                                    *)
(***************************************************************************)
\* longest batch handed to create_payment_records
MaxBatch == 2
\* most rows the store ever holds (a call is made only if its batch still fits)
MaxStore == 3
\* rows the database returns per query page (the code asks for at most 100)
PageRows == 1

(***************************************************************************)
(* Data.                                                                   *)
(***************************************************************************)
\* message ids: the empty string '' and two transport ids
EmptyId == 0
MessageIds == {EmptyId, 1, 2}
\* date headers: an empty or unparseable one, and an older and a newer
\* RFC-2822 timestamp (with timezone)
NoDate == 0
Dates == {NoDate, 1, 2}
MaxOf(S) == CHOOSE x \in S : \A y \in S : y <= x
\* a payment dict, reduced to the two keys the sync code reads for control
Payments == [message_id : MessageIds, date : Dates]
Backends == {"notion", "sheets"}

RECURSIVE SeqsUpTo(_, _)
SeqsUpTo(S, n) ==
  IF n = 0 THEN {<<>>}
  ELSE LET shorter == SeqsUpTo(S, n - 1)
       IN  shorter \cup {Append(s, x) : s \in {t \in shorter : Len(t) = n - 1}, x \in S}

Batches == SeqsUpTo(Payments, MaxBatch)

\* the store, by Message ID: how many rows / pages carry each id
RECURSIVE SumUpTo(_, _)
SumUpTo(f, n) == IF n < 0 THEN 0 ELSE f[n] + SumUpTo(f, n - 1)
StoreSize(st) == SumUpTo(st, MaxOf(MessageIds))

EmptyStore == [m \in MessageIds |-> 0]

AddRow(st, m) == [st EXCEPT ![m] = @ + 1]

RECURSIVE AddRows(_, _)
AddRows(st, rows) ==
  IF rows = <<>> THEN st ELSE AddRows(AddRow(st, Head(rows).message_id), Tail(rows))

\* variant: the read forgets the rows and reports no known id
ExistingIdsOf_Forgetful(st) == {}

\* get_existing_message_ids: the Message ID column of all rows read from the
\* sheet, as a set, '' discarded
ExistingIdsOf(st) == {m \in MessageIds \ {EmptyId} : st[m] > 0}

\* the Message IDs of the rows the database query matches, in store order
RECURSIVE RowIdsFrom(_, _)
RowIdsFrom(st, m) ==
  IF m > MaxOf(MessageIds) THEN <<>>
  ELSE [k \in 1..st[m] |-> m] \o RowIdsFrom(st, m + 1)

QueryRows(st) == RowIdsFrom(st, EmptyId + 1)

\* queries needed to read every row: has_more stays true while rows remain
NumPages(st) ==
  IF Len(QueryRows(st)) = 0 THEN 1
  ELSE (Len(QueryRows(st)) + PageRows - 1) \div PageRows

\* ids accumulated in existing_ids after n pages were read
IdsOfPages(st, n) ==
  {QueryRows(st)[k] : k \in {j \in 1..Len(QueryRows(st)) : j <= n * PageRows}}

\* what _get_existing_message_ids returns when a query raises after `partial`
\* was accumulated
NotionIdsOnError(partial) == {}

\* parse_date_for_sorting: an empty or unparseable date gives datetime.min,
\* which is naive; a parsed RFC-2822 date carries its timezone
ParseDateForSorting(p) ==
  IF p.date = NoDate THEN [aware |-> FALSE, t |-> 0]
  ELSE [aware |-> TRUE, t |-> p.date]

\* sorted() compares keys; a naive and an aware datetime cannot be compared
\* (TypeError), and any sort of a list holding both compares such a pair
SortRaises(batch) ==
  \E i, j \in 1..Len(batch) :
    ParseDateForSorting(batch[i]).aware /= ParseDateForSorting(batch[j]).aware

RECURSIVE InsertNewestFirst(_, _)
InsertNewestFirst(s, p) ==
  IF s = <<>> THEN <<p>>
  ELSE IF ParseDateForSorting(Head(s)).t >= ParseDateForSorting(p).t
       THEN <<Head(s)>> \o InsertNewestFirst(Tail(s), p)
       ELSE <<p>> \o s

\* sorted(payments, key=parse_date_for_sorting, reverse=True): stable
RECURSIVE SortedPayments(_)
SortedPayments(batch) ==
  IF batch = <<>> THEN <<>>
  ELSE InsertNewestFirst(SortedPayments(SubSeq(batch, 1, Len(batch) - 1)),
                         batch[Len(batch)])

Count(seq, x) == Cardinality({k \in 1..Len(seq) : seq[k] = x})

(***************************************************************************)
(* PaymentExtractor: text handling.  A str is a sequence of characters, a  *)
(* character a one-letter string; the signs that are not ASCII are written *)
(* by name ("peso", "euro", "pound", "yen").                               *)
(***************************************************************************)
\* longest text, in words, handed to the extraction functions
MaxWords == 3

\* Optional[str]: None is told apart from every str, '' included
None == <<"None">>

Digits == {"0", "1", "2", "3", "4", "5", "6", "7", "8", "9"}
LowerCase == <<"a", "b", "c", "d", "e", "f", "g", "h", "i", "j", "k", "l", "m",
               "n", "o", "p", "q", "r", "s", "t", "u", "v", "w", "x", "y", "z">>
UpperCase == <<"A", "B", "C", "D", "E", "F", "G", "H", "I", "J", "K", "L", "M",
               "N", "O", "P", "Q", "R", "S", "T", "U", "V", "W", "X", "Y", "Z">>
LowerSet == {LowerCase[k] : k \in 1..26}
UpperSet == {UpperCase[k] : k \in 1..26}
\* [A-Z] under re.IGNORECASE
Letters == LowerSet \cup UpperSet
\* \s ; cleaned text holds no other whitespace than the blank
Whitespace == {" "}
\* [0-9,]
DigitOrComma == Digits \cup {","}
\* [\$₱€£¥]
CurrencySymbols == {"$", "peso", "euro", "pound", "yen"}

ToUpper == [c \in LowerSet |-> UpperCase[CHOOSE k \in 1..26 : LowerCase[k] = c]]
ToLower == [c \in UpperSet |-> LowerCase[CHOOSE k \in 1..26 : UpperCase[k] = c]]
\* str.upper(), str.lower()
Upper(s) == [k \in 1..Len(s) |-> IF s[k] \in LowerSet THEN ToUpper[s[k]] ELSE s[k]]
Lower(s) == [k \in 1..Len(s) |-> IF s[k] \in UpperSet THEN ToLower[s[k]] ELSE s[k]]

\* lit in s
Contains(s, lit) ==
  \E i \in 1..(Len(s) - Len(lit) + 1) : SubSeq(s, i, i + Len(lit) - 1) = lit

\* s has lit at position i
LitAt(s, i, lit) ==
  /\ i + Len(lit) - 1 <= Len(s)
  /\ SubSeq(s, i, i + Len(lit) - 1) = lit

\* a greedy run of characters of class S from position i: the position after it
SpanEnd(s, i, S) ==
  CHOOSE j \in i..(Len(s) + 1) :
    /\ \A k \in i..(j - 1) : s[k] \in S
    /\ j = Len(s) + 1 \/ s[j] \notin S

\* a greedy run of characters outside class S
SpanEndNot(s, i, S) ==
  CHOOSE j \in i..(Len(s) + 1) :
    /\ \A k \in i..(j - 1) : s[k] \notin S
    /\ j = Len(s) + 1 \/ s[j] \in S

\* re.sub(r'<[^>]+>', ' ', text)
RECURSIVE StripTags(_)
StripTags(s) ==
  IF s = <<>> THEN <<>>
  ELSE LET close == SpanEndNot(s, 2, {">"})
       IN  IF Head(s) = "<" /\ close > 2 /\ close <= Len(s)
           THEN <<" ">> \o StripTags(SubSeq(s, close + 1, Len(s)))
           ELSE <<Head(s)>> \o StripTags(Tail(s))

\* re.sub(r'\s+', ' ', text)
RECURSIVE CollapseWhitespace(_)
CollapseWhitespace(s) ==
  IF Len(s) < 2 THEN s
  ELSE IF s[1] \in Whitespace /\ s[2] \in Whitespace
       THEN CollapseWhitespace(Tail(s))
       ELSE <<Head(s)>> \o CollapseWhitespace(Tail(s))

\* str.strip(chars)
StripChars(s, S) ==
  LET keep == {k \in 1..Len(s) : s[k] \notin S}
  IN  IF keep = {} THEN <<>>
      ELSE SubSeq(s, CHOOSE k \in keep : \A j \in keep : k <= j,
                     CHOOSE k \in keep : \A j \in keep : j <= k)

\* _clean_html_text; the texts of the model hold no '&' and no '=', so that
\* html.unescape and the two quoted-printable substitutions change nothing
CleanHtmlText(text) ==
  IF text = <<>> THEN <<>>
  ELSE StripChars(CollapseWhitespace(StripTags(text)), Whitespace)

\* variant: the separators stay in the amount
RemoveCommas_Keeps(s) == s

\* str.replace(',', '')
RemoveCommas(s) == SelectSeq(s, LAMBDA c : c /= ",")

\* _is_payment_email
PaymentKeywords ==
  << <<"p","a","y","m","e","n","t">>,
     <<"p","a","i","d">>,
     <<"s","e","n","t"," ","y","o","u">>,
     <<"r","e","c","e","i","v","e","d">>,
     <<"i","n","v","o","i","c","e">>,
     <<"t","r","a","n","s","f","e","r">>,
     <<"m","o","n","e","y">>,
     <<"g","o","t"," ","p","a","i","d">>,
     <<"w","a","n","t","s"," ","t","o"," ","p","a","y">> >>
IsPaymentEmail(text) ==
  LET text_lower == Lower(text)
      found_keywords == {k \in 1..Len(PaymentKeywords) : Contains(text_lower, PaymentKeywords[k])}
  IN  Cardinality(found_keywords) > 0

(***************************************************************************)
(* _extract_amount: the six patterns, tried with re.search(pattern,        *)
(* clean_text, re.IGNORECASE).  A pattern is matched against the text and  *)
(* its upper-cased copy U (for the literals and the currency codes).       *)
(***************************************************************************)
\* (PHP|USD|EUR|GBP|CAD)
CurrencyCodes == { <<"P","H","P">>, <<"U","S","D">>, <<"E","U","R">>,
                   <<"G","B","P">>, <<"C","A","D">> }
HAS_SENT_YOU == <<"H","A","S"," ","S","E","N","T"," ","Y","O","U">>

CodeAt(U, i) == i + 2 <= Len(U) /\ SubSeq(U, i, i + 2) \in CurrencyCodes
\* [A-Z]{3}
ThreeLettersAt(s, i) == i + 2 <= Len(s) /\ \A k \in i..(i + 2) : s[k] \in Letters

\* the ways [0-9,]+\.?[0-9]* matches at i: <<a, b, c>> where the digits and
\* commas end before a, the optional point before b and the match before c
NumberEnds(s, i) ==
  UNION { UNION { { <<a, b, c>> : c \in b..SpanEnd(s, b, Digits) }
                  : b \in {a} \cup (IF a <= Len(s) /\ s[a] = "." THEN {a + 1} ELSE {}) }
          : a \in (i + 1)..SpanEnd(s, i, DigitOrComma) }

\* the order in which the regex engine tries them: every quantifier greedy
Preferred(x, y) ==
  \/ x[1] > y[1]
  \/ x[1] = y[1] /\ x[2] > y[2]
  \/ x[1] = y[1] /\ x[2] = y[2] /\ x[3] > y[3]

\* where the number matched at i ends (the position after it), the rest of the
\* pattern having to match from there (rest: the positions where it does);
\* 0 when there is no match
NumberEnd(s, i, rest) ==
  LET ok == {x \in NumberEnds(s, i) : x[3] \in rest}
  IN  IF ok = {} THEN 0
      ELSE (CHOOSE x \in ok : \A y \in ok : y = x \/ Preferred(x, y))[3]

NoMatch == <<>>
\* the positions of s, the one after its end included
Positions(s) == 1..(Len(s) + 1)

\* pattern.match at position i: match.groups(), or NoMatch.
\* 0: has sent you\s+([0-9,]+\.?[0-9]*)\s+(PHP|USD|EUR|GBP|CAD)
\* 1: has sent you\s+([0-9,]+\.?[0-9]*)\s*([A-Z]{3})
\* 2: PHP\s*([0-9,]+\.?[0-9]*)
\* 3: [\$₱€£¥]([0-9,]+\.?[0-9]*)
\* 4: ([0-9,]+\.?[0-9]*)\s*(USD|PHP|EUR|GBP|CAD)
\* 5: (USD|PHP|EUR|GBP|CAD)\s*([0-9,]+\.?[0-9]*)
\* A run of whitespace before a number or a code is taken whole: a shorter run
\* would leave whitespace where the pattern wants a digit or a letter.
AmountGroupsAt(p, s, U, i) ==
  LET SpaceThenCode ==
        {c \in Positions(s) : SpanEnd(s, c, Whitespace) > c /\ CodeAt(U, SpanEnd(s, c, Whitespace))}
      MaybeSpaceThenCode == {c \in Positions(s) : CodeAt(U, SpanEnd(s, c, Whitespace))}
      MaybeSpaceThenLetters == {c \in Positions(s) : ThreeLettersAt(s, SpanEnd(s, c, Whitespace))}
      Three(c) == SubSeq(s, SpanEnd(s, c, Whitespace), SpanEnd(s, c, Whitespace) + 2)
      Phrase(rest) ==
        IF ~LitAt(U, i, HAS_SENT_YOU) THEN NoMatch
        ELSE LET n == SpanEnd(s, i + 12, Whitespace)
                 c == IF n > i + 12 THEN NumberEnd(s, n, rest) ELSE 0
             IN  IF c = 0 THEN NoMatch ELSE <<SubSeq(s, n, c - 1), Three(c)>>
      NumberAfter(n) ==
        LET c == NumberEnd(s, n, Positions(s))
        IN  IF c = 0 THEN NoMatch ELSE <<SubSeq(s, n, c - 1)>>
  IN  CASE p = 0 -> Phrase(SpaceThenCode)
        [] p = 1 -> Phrase(MaybeSpaceThenLetters)
        [] p = 2 -> IF LitAt(U, i, <<"P","H","P">>)
                    THEN NumberAfter(SpanEnd(s, i + 3, Whitespace)) ELSE NoMatch
        [] p = 3 -> IF s[i] \in CurrencySymbols THEN NumberAfter(i + 1) ELSE NoMatch
        [] p = 4 -> LET c == NumberEnd(s, i, MaybeSpaceThenCode)
                    IN  IF c = 0 THEN NoMatch ELSE <<SubSeq(s, i, c - 1), Three(c)>>
        [] p = 5 -> IF CodeAt(U, i)
                    THEN LET g == NumberAfter(SpanEnd(s, i + 3, Whitespace))
                         IN  IF g = NoMatch THEN NoMatch ELSE <<SubSeq(s, i, i + 2), g[1]>>
                    ELSE NoMatch

\* re.search: the match at the leftmost position that has one
AmountSearch(p, s, U) ==
  LET starts == {i \in 1..Len(s) : AmountGroupsAt(p, s, U, i) /= NoMatch}
  IN  IF starts = {} THEN NoMatch
      ELSE AmountGroupsAt(p, s, U, CHOOSE i \in starts : \A j \in starts : i <= j)

\* the loop over the patterns; no pattern has more than two groups
RECURSIVE AmountFromPattern(_, _, _)
AmountFromPattern(i, clean_text, U) ==
  IF i > 5 THEN [amount |-> None, currency |-> None]
  ELSE LET groups == AmountSearch(i, clean_text, U)
       IN  IF groups = NoMatch THEN AmountFromPattern(i + 1, clean_text, U)
           ELSE IF Len(groups) = 1
           THEN [amount |-> RemoveCommas(groups[1]),
                 currency |->
                   IF i = 2 THEN <<"P","H","P">>
                   ELSE IF Contains(clean_text, <<"$">>) \/ Contains(U, <<"U","S","D">>)
                        THEN <<"U","S","D">>
                   ELSE IF Contains(clean_text, <<"euro">>) \/ Contains(U, <<"E","U","R">>)
                        THEN <<"E","U","R">>
                   ELSE IF Contains(clean_text, <<"pound">>) \/ Contains(U, <<"G","B","P">>)
                        THEN <<"G","B","P">>
                   ELSE <<"P","H","P">>]
           ELSE [amount |-> RemoveCommas(groups[1]),
                 currency |-> IF groups[2] /= <<>> THEN Upper(groups[2]) ELSE <<"P","H","P">>]

\* _extract_amount
ExtractAmount(text) ==
  LET clean_text == CleanHtmlText(text)
  IN  AmountFromPattern(0, clean_text, Upper(clean_text))

(***************************************************************************)
(* _extract_sender: the five patterns, tried with re.search(pattern,       *)
(* clean_text, re.IGNORECASE).                                             *)
(***************************************************************************)
\* [A-Za-z0-9\s\.\,\-\_&\(\)\'\"Ltd Pty Inc Corp LLC]
SenderChars ==
  Letters \cup Digits \cup Whitespace \cup {".", ",", "-", "_", "&", "(", ")", "'", "\""}

HELLO == <<"H","E","L","L","O"," ">>
FROM == <<"F","R","O","M">>
YOU_GOT_PAID_BY == <<"Y","O","U"," ","G","O","T"," ","P","A","I","D"," ","B","Y">>
\* (?:sent|paid|has|is|wants|received)
VerbsAfterFrom ==
  { <<"S","E","N","T">>, <<"P","A","I","D">>, <<"H","A","S">>, <<"I","S">>,
    <<"W","A","N","T","S">>, <<"R","E","C","E","I","V","E","D">> }
\* (?:sent you|paid you|has sent|wants to pay)
VerbPhrases ==
  { <<"S","E","N","T"," ","Y","O","U">>, <<"P","A","I","D"," ","Y","O","U">>,
    <<"H","A","S"," ","S","E","N","T">>,
    <<"W","A","N","T","S"," ","T","O"," ","P","A","Y">> }

\* \s+ and then one of the literals, from position e
SpaceThenOneOf(s, U, e, lits) ==
  LET n == SpanEnd(s, e, Whitespace)
  IN  n > e /\ \E lit \in lits : LitAt(U, n, lit)

\* \s+has sent you\s+[0-9,]+ from position e
SpaceThenHasSentYouNumber(s, U, e) ==
  LET n == SpanEnd(s, e, Whitespace)
      m == SpanEnd(s, n + 12, Whitespace)
  IN  /\ n > e
      /\ LitAt(U, n, HAS_SENT_YOU)
      /\ m > n + 12
      /\ m <= Len(s)
      /\ s[m] \in DigitOrComma

\* the lazy group ([...]+?) that may begin at any position of `begins` (the
\* engine tries the latest first: the whitespace before the group is greedy)
\* and is followed by the rest of the pattern (rest: the positions where that
\* matches): the captured text, or NoMatch
LazyGroup(s, begins, rest) ==
  LET ways == UNION { { <<w, e>> : e \in ((w + 1)..SpanEnd(s, w, SenderChars)) \cap rest }
                      : w \in begins }
  IN  IF ways = {} THEN NoMatch
      ELSE LET w == CHOOSE x \in {y[1] : y \in ways} : \A y \in ways : y[1] <= x
               e == CHOOSE x \in {y[2] : y \in {z \in ways : z[1] = w}} :
                      \A y \in ways : y[1] = w => x <= y[2]
           IN  SubSeq(s, w, e - 1)

\* pattern.match at position i: match.group(1), or NoMatch.
\* 0: Hello [^,]+,\s*([...]+?)\s+has sent you\s+[0-9,]+
\* 1: ^([...]+?)\s+has sent you\s+[0-9,]+
\* 2: from\s+([...]+?)(?:\s+(?:sent|paid|has|is|wants|received))
\* 3: ([...]+?)\s+(?:sent you|paid you|has sent|wants to pay)
\* 4: You got paid by\s+([...]+)
SenderGroupAt(p, s, U, i) ==
  LET HasSentYou == {e \in Positions(s) : SpaceThenHasSentYouNumber(s, U, e)}
      Verb == {e \in Positions(s) : SpaceThenOneOf(s, U, e, VerbsAfterFrom)}
      VerbPhrase == {e \in Positions(s) : SpaceThenOneOf(s, U, e, VerbPhrases)}
  IN  CASE p = 0 ->
             IF ~LitAt(U, i, HELLO) THEN NoMatch
             ELSE LET comma == SpanEndNot(s, i + 6, {","})
                  IN  IF comma > i + 6 /\ comma <= Len(s)
                      THEN LazyGroup(s, (comma + 1)..SpanEnd(s, comma + 1, Whitespace), HasSentYou)
                      ELSE NoMatch
        [] p = 1 -> IF i = 1 THEN LazyGroup(s, {1}, HasSentYou) ELSE NoMatch
        [] p = 2 ->
             IF ~LitAt(U, i, FROM) THEN NoMatch
             ELSE LazyGroup(s, (i + 5)..SpanEnd(s, i + 4, Whitespace), Verb)
        [] p = 3 -> LazyGroup(s, {i}, VerbPhrase)
        [] p = 4 ->
             IF ~LitAt(U, i, YOU_GOT_PAID_BY) THEN NoMatch
             ELSE LET begins == {w \in (i + 16)..SpanEnd(s, i + 15, Whitespace) :
                                   w <= Len(s) /\ s[w] \in SenderChars}
                  IN  IF begins = {} THEN NoMatch
                      ELSE LET w == CHOOSE x \in begins : \A y \in begins : y <= x
                           IN  SubSeq(s, w, SpanEnd(s, w, SenderChars) - 1)

\* re.search: the match at the leftmost position that has one
RECURSIVE SenderSearchFrom(_, _, _, _)
SenderSearchFrom(p, s, U, i) ==
  IF i > Len(s) THEN NoMatch
  ELSE LET group == SenderGroupAt(p, s, U, i)
       IN  IF group /= NoMatch THEN group ELSE SenderSearchFrom(p, s, U, i + 1)

\* match.group(1).strip(), whitespace normalised, then .strip('.,- ')
CleanedSender(group) ==
  StripChars(CollapseWhitespace(StripChars(group, Whitespace)), {".", ",", "-", " "})

UnknownSender == <<"U","n","k","n","o","w","n"," ","S","e","n","d","e","r">>

\* variant: the first pattern that matches decides, whatever the length
RECURSIVE SenderFromPattern_FirstMatch(_, _, _)
SenderFromPattern_FirstMatch(i, clean_text, U) ==
  IF i > 4 THEN UnknownSender
  ELSE LET group == SenderSearchFrom(i, clean_text, U, 1)
       IN  IF group /= NoMatch THEN CleanedSender(group)
           ELSE SenderFromPattern_FirstMatch(i + 1, clean_text, U)

\* the loop over the patterns
RECURSIVE SenderFromPattern(_, _, _)
SenderFromPattern(i, clean_text, U) ==
  IF i > 4 THEN UnknownSender
  ELSE LET group == SenderSearchFrom(i, clean_text, U, 1)
       IN  IF group /= NoMatch /\ Len(CleanedSender(group)) >= 3
           THEN CleanedSender(group)
           ELSE SenderFromPattern(i + 1, clean_text, U)

\* _extract_sender
ExtractSender(text) ==
  LET clean_text == CleanHtmlText(text)
  IN  SenderFromPattern(0, clean_text, Upper(clean_text))

(***************************************************************************)
(* The texts the extraction functions are applied to: up to MaxWords       *)
(* fragments joined by blanks (full_text = subject + ' ' + body).          *)
(***************************************************************************)
HasSentYou6600 == <<"h","a","s"," ","s","e","n","t"," ","y","o","u"," ","6",",","6","0","0">>
Fifty == <<"5","0">>
PaidComma == <<"p","a","i","d",",">>
USD == <<"U","S","D">>
php == <<"p","h","p">>
Dollar50 == <<"$","5","0">>
Peso50 == <<"peso","5","0">>
BoldTag == <<"<","b",">">>
Acme == <<"A","c","m","e">>
HelloBob == <<"H","e","l","l","o"," ","B","o","b",",">>
Hi == <<"H","i">>
HasSentYou5 == <<"h","a","s"," ","s","e","n","t"," ","y","o","u"," ","5">>
From == <<"f","r","o","m">>
PaidYou == <<"p","a","i","d"," ","y","o","u">>
YouGotPaidBy == <<"Y","o","u"," ","g","o","t"," ","p","a","i","d"," ","b","y">>
Ltd == <<"L","t","d",".">>

AmountFragments == {HasSentYou6600, Fifty, PaidComma, USD, php, Dollar50, Peso50, BoldTag, Acme}
SenderFragments == {HelloBob, Acme, Hi, HasSentYou5, From, PaidYou, YouGotPaidBy, Ltd}

Texts == SeqsUpTo(AmountFragments, MaxWords) \cup SeqsUpTo(SenderFragments, MaxWords)

\* ' '.join(words)
RECURSIVE Join(_)
Join(ws) ==
  IF ws = <<>> THEN <<>>
  ELSE IF Len(ws) = 1 THEN ws[1]
  ELSE ws[1] \o <<" ">> \o Join(Tail(ws))

(***************************************************************************)
(* _calculate_days_ago.  Time is counted in parts of a day; a date header  *)
(* is NoDate (empty or not RFC-2822) or the time it names.                 *)
(***************************************************************************)
\* latest point in time, in parts of a day
MaxTime == 7
PartsPerDay == 2
Times == 0..MaxTime
DateHeaders == {NoDate} \cup (1..MaxTime)

\* timedelta.days: the whole days of a difference, rounded towards minus
\* infinity
WholeDays(parts) ==
  IF parts >= 0 THEN parts \div PartsPerDay
  ELSE -((-parts + PartsPerDay - 1) \div PartsPerDay)

\* _calculate_days_ago: parsedate_to_datetime raises on NoDate, which the
\* handler turns into "Unknown"
CalculateDaysAgo(date_str, now) ==
  IF date_str = NoDate THEN <<"Unknown">>
  ELSE LET days == WholeDays(now - date_str)
       IN  IF days = 0 THEN <<"Today">>
           ELSE IF days = 1 THEN <<"Yesterday">>
           ELSE <<days, " days ago">>

(***************************************************************************)
(* State of a store client and of the call of create_payment_records in    *)
(* progress.                                                               *)
(***************************************************************************)
VARIABLES
  backend,          \* which client the process uses
  store,            \* the external store: rows per Message ID
  pc,               \* position of the call
  payments,         \* the argument of the call
  sorted_payments,  \* sheets: the batch after the sort
  existing_ids,     \* the known set
  rows_to_insert,   \* sheets: rows staged for the batch write
  created_count,
  skipped_count,
  failed_count,
  errors,           \* notion: one entry per failed record (its position)
  exception,        \* what the call raised, "none" while it has not
  outcome,          \* per processed record, in processing order
  store_start,      \* the store when the call began
  read_status       \* "none", "ok" or "failed": the read of existing ids

VARIABLES
  mpc,              \* position of extract_all_payments
  conn_open,        \* IMAP4_SSL(...) returned: a connection is open
  logged_out,       \* mail.logout() returned
  propagating,      \* an exception is on its way out through the finally
  svc,              \* index of the service being processed
  pending,          \* message ids of the service still to process
  service_payments, \* _extract_service_payments: its local list payments
  all_payments,     \* extract_all_payments: its list all_payments
  search_ok_seen,   \* some search of this run did not raise
  fetch_seen,       \* some message was fetched in this run
  fetch_ok_seen,    \* some fetch of this run returned status OK
  search_found,     \* the sequence numbers the last search returned
  handled,          \* those of them _extract_payment_from_message was called for
  built_all,        \* every payment dict built in this run, in order
  msg_failed        \* some fetch of this run failed

VARIABLES
  words,            \* the fragments of the message text
  epc,              \* position of _extract_payment_from_message
  amount,           \* what _extract_amount returned
  currency,
  sender,           \* what _extract_sender returned
  date_str,         \* the Date header of the message
  now_t,            \* datetime.now()
  days_ago          \* what _calculate_days_ago returned

extractVars == <<words, epc, amount, currency, sender, date_str, now_t, days_ago>>

VARIABLES
  tpc,              \* position of a run: store set-up, then the sync
  schema            \* the properties of the database, "absent" without one

VARIABLES
  headers,          \* row 3 of the sheet: "correct", "missing" or "different"
  last_run          \* cell A1 carries the 'Last Run' stamp

sheetVars == <<headers, last_run>>

VARIABLES
  is_test,          \* the 'test' flag of the request
  config_loaded,    \* all(CONFIG.values())
  amounts_numeric,  \* float() accepts the amount of every extracted payment
  response          \* what payment_extractor returned, status "none" before

triggerVars == <<is_test, config_loaded, amounts_numeric, response>>

setupVars == <<tpc, schema, sheetVars, triggerVars>>

\* what a run has found, handled and built so far
messageVars == <<search_found, handled, built_all, msg_failed>>

mailVars == <<mpc, conn_open, logged_out, propagating, svc, pending,
              service_payments, all_payments, search_ok_seen, fetch_seen,
              fetch_ok_seen, messageVars>>

syncVars == <<backend, store, pc, payments, sorted_payments, existing_ids,
              rows_to_insert, created_count, skipped_count, failed_count,
              errors, exception, outcome, store_start, read_status>>

vars == <<syncVars, mailVars, extractVars, setupVars>>

\* the sequence the record loop walks: the sheet client sorts, the database
\* client takes the argument as given
Iterated == IF backend = "sheets" THEN sorted_payments ELSE payments

\* no extraction run is in progress
MailIdle ==
  /\ mpc = "idle"
  /\ conn_open = FALSE
  /\ logged_out = FALSE
  /\ propagating = FALSE
  /\ svc = 0
  /\ pending = <<>>
  /\ service_payments = <<>>
  /\ all_payments = <<>>
  /\ search_ok_seen = FALSE
  /\ fetch_seen = FALSE
  /\ fetch_ok_seen = FALSE
  /\ search_found = {}
  /\ handled = {}
  /\ built_all = <<>>
  /\ msg_failed = FALSE

\* no message is being looked at
ExtractIdle ==
  /\ words = <<>>
  /\ epc = "idle"
  /\ amount = None
  /\ currency = None
  /\ sender = <<>>
  /\ date_str = NoDate
  /\ now_t = 0
  /\ days_ago = <<>>

\* no run is setting up the store: the database is there as required
\* the sheet is laid out as required and holds no stamp yet
SheetIdle ==
  /\ headers = "correct"
  /\ last_run = FALSE

\* no request has been answered
NoResponse ==
  [status |-> "none", message |-> "none", config_loaded |-> None,
   payments_processed |-> 0, notion_result |-> <<>>]

TriggerIdle ==
  /\ is_test = FALSE
  /\ config_loaded = TRUE
  /\ amounts_numeric = TRUE
  /\ response = NoResponse

SetupIdle ==
  /\ tpc = "idle"
  /\ schema = "valid"
  /\ SheetIdle
  /\ TriggerIdle

\* a store client is constructed and no call is in progress
CallIdle ==
  /\ pc = "idle"
  /\ payments = <<>>
  /\ sorted_payments = <<>>
  /\ existing_ids = {}
  /\ rows_to_insert = <<>>
  /\ created_count = 0
  /\ skipped_count = 0
  /\ failed_count = 0
  /\ errors = <<>>
  /\ exception = "none"
  /\ outcome = <<>>
  /\ store_start = EmptyStore
  /\ read_status = "none"

SyncIdle ==
  /\ store = EmptyStore
  /\ CallIdle

Init ==
  /\ backend \in Backends
  /\ SyncIdle
  /\ MailIdle
  /\ SetupIdle
  /\ ExtractIdle

\* create_payment_records(payments) is entered
Call(b) ==
  /\ pc = "idle"
  /\ StoreSize(store) + Len(b) <= MaxStore
  /\ payments' = b
  /\ sorted_payments' = <<>>
  /\ existing_ids' = {}
  /\ rows_to_insert' = <<>>
  /\ created_count' = 0
  /\ skipped_count' = 0
  /\ failed_count' = 0
  /\ errors' = <<>>
  /\ exception' = "none"
  /\ outcome' = <<>>
  /\ store_start' = store
  /\ read_status' = "none"
  /\ pc' = IF backend = "sheets" /\ b = <<>> THEN "returned" ELSE "read"
  /\ UNCHANGED <<backend, store>>
  /\ UNCHANGED <<mailVars, extractVars, setupVars>>

\* the call is over (result returned or exception raised): its locals are
\* gone, the client and the store remain
CallEnds ==
  /\ pc \in {"returned", "raised"}
  /\ pc' = "idle"
  /\ payments' = <<>>
  /\ sorted_payments' = <<>>
  /\ existing_ids' = {}
  /\ rows_to_insert' = <<>>
  /\ created_count' = 0
  /\ skipped_count' = 0
  /\ failed_count' = 0
  /\ errors' = <<>>
  /\ exception' = "none"
  /\ outcome' = <<>>
  /\ store_start' = store
  /\ read_status' = "none"
  /\ UNCHANGED <<backend, store>>
  /\ UNCHANGED <<mailVars, extractVars, setupVars>>

(***************************************************************************)
(* NotionClient                                                            *)
(***************************************************************************)
\* _get_existing_message_ids: the paginated query; failAt = 0 when every
\* query succeeds, else the page whose query raises
NotionGetExistingMessageIds ==
  /\ backend = "notion"
  /\ pc = "read"
  /\ \E failAt \in 0..NumPages(store) :
       /\ existing_ids' = IF failAt = 0 THEN IdsOfPages(store, NumPages(store))
                          ELSE NotionIdsOnError(IdsOfPages(store, failAt - 1))
       /\ read_status' = IF failAt = 0 THEN "ok" ELSE "failed"
  /\ pc' = "loop"
  /\ UNCHANGED <<backend, store, payments, sorted_payments, rows_to_insert,
                 created_count, skipped_count, failed_count, errors, exception,
                 outcome, store_start>>
  /\ UNCHANGED <<mailVars, extractVars, setupVars>>

\* loop body, duplicate branch
NotionSkipDuplicate ==
  /\ backend = "notion"
  /\ pc = "loop"
  /\ Len(outcome) < Len(payments)
  /\ payments[Len(outcome) + 1].message_id \in existing_ids
  /\ skipped_count' = skipped_count + 1
  /\ outcome' = Append(outcome, "SkippedDuplicate")
  /\ UNCHANGED <<backend, store, pc, payments, sorted_payments, existing_ids,
                 rows_to_insert, created_count, failed_count, errors, exception,
                 store_start, read_status>>
  /\ UNCHANGED <<mailVars, extractVars, setupVars>>

\* loop body, _create_single_payment_record returns
NotionCreateOk ==
  /\ backend = "notion"
  /\ pc = "loop"
  /\ Len(outcome) < Len(payments)
  /\ LET m == payments[Len(outcome) + 1].message_id
     IN  /\ m \notin existing_ids
         /\ store' = AddRow(store, m)
         /\ created_count' = created_count + 1
         /\ existing_ids' = existing_ids \cup {m}
  /\ outcome' = Append(outcome, "Created")
  /\ UNCHANGED <<backend, pc, payments, sorted_payments, rows_to_insert,
                 skipped_count, failed_count, errors, exception, store_start,
                 read_status>>
  /\ UNCHANGED <<mailVars, extractVars, setupVars>>

\* variant: the failure is not handled in the loop and ends the call
NotionCreateFail_Aborts ==
  /\ backend = "notion"
  /\ pc = "loop"
  /\ Len(outcome) < Len(payments)
  /\ payments[Len(outcome) + 1].message_id \notin existing_ids
  /\ pc' = "raised"
  /\ exception' = "APIError"
  /\ UNCHANGED <<backend, store, payments, sorted_payments, existing_ids,
                 rows_to_insert, created_count, skipped_count, failed_count,
                 errors, outcome, store_start, read_status>>
  /\ UNCHANGED <<mailVars, extractVars, setupVars>>

\* variant: the id joins the known set before the write is attempted
NotionCreateFail_AddsId ==
  /\ backend = "notion"
  /\ pc = "loop"
  /\ Len(outcome) < Len(payments)
  /\ payments[Len(outcome) + 1].message_id \notin existing_ids
  /\ existing_ids' = existing_ids \cup {payments[Len(outcome) + 1].message_id}
  /\ failed_count' = failed_count + 1
  /\ errors' = Append(errors, Len(outcome) + 1)
  /\ outcome' = Append(outcome, "Failed")
  /\ UNCHANGED <<backend, store, pc, payments, sorted_payments, rows_to_insert,
                 created_count, skipped_count, exception, store_start,
                 read_status>>
  /\ UNCHANGED <<mailVars, extractVars, setupVars>>

\* loop body, _create_single_payment_record raises (float() of the amount or
\* pages.create): the handler counts the failure and the loop goes on
NotionCreateFail ==
  /\ backend = "notion"
  /\ pc = "loop"
  /\ Len(outcome) < Len(payments)
  /\ payments[Len(outcome) + 1].message_id \notin existing_ids
  /\ failed_count' = failed_count + 1
  /\ errors' = Append(errors, Len(outcome) + 1)
  /\ outcome' = Append(outcome, "Failed")
  /\ UNCHANGED <<backend, store, pc, payments, sorted_payments, existing_ids,
                 rows_to_insert, created_count, skipped_count, exception,
                 store_start, read_status>>
  /\ UNCHANGED <<mailVars, extractVars, setupVars>>

\* the loop is over: the result dict is returned
NotionReturn ==
  /\ backend = "notion"
  /\ pc = "loop"
  /\ Len(outcome) = Len(payments)
  /\ pc' = "returned"
  /\ UNCHANGED <<backend, store, payments, sorted_payments, existing_ids,
                 rows_to_insert, created_count, skipped_count, failed_count,
                 errors, exception, outcome, store_start, read_status>>
  /\ UNCHANGED <<mailVars, extractVars, setupVars>>

(***************************************************************************)
(* SheetsClient (the sheet is open: ensure_spreadsheet_setup has run)      *)
(***************************************************************************)
\* get_existing_message_ids: one read of all rows, set() when it raises
SheetsGetExistingMessageIds ==
  /\ backend = "sheets"
  /\ pc = "read"
  /\ \E ok \in BOOLEAN :
       /\ existing_ids' = IF ok THEN ExistingIdsOf(store) ELSE {}
       /\ read_status' = IF ok THEN "ok" ELSE "failed"
  /\ pc' = "sort"
  /\ UNCHANGED <<backend, store, payments, sorted_payments, rows_to_insert,
                 created_count, skipped_count, failed_count, errors, exception,
                 outcome, store_start>>
  /\ UNCHANGED <<mailVars, extractVars, setupVars>>

\* sorted(payments, key=parse_date_for_sorting, reverse=True); a TypeError of
\* the comparison reaches the outer handler, which re-raises
SheetsSort ==
  /\ backend = "sheets"
  /\ pc = "sort"
  /\ IF SortRaises(payments)
     THEN /\ pc' = "raised"
          /\ exception' = "TypeError"
          /\ UNCHANGED sorted_payments
     ELSE /\ pc' = "loop"
          /\ sorted_payments' = SortedPayments(payments)
          /\ UNCHANGED exception
  /\ UNCHANGED <<backend, store, payments, existing_ids, rows_to_insert,
                 created_count, skipped_count, failed_count, errors, outcome,
                 store_start, read_status>>
  /\ UNCHANGED <<mailVars, extractVars, setupVars>>

\* loop body, duplicate branch
SheetsSkipDuplicate ==
  /\ backend = "sheets"
  /\ pc = "loop"
  /\ Len(outcome) < Len(sorted_payments)
  /\ sorted_payments[Len(outcome) + 1].message_id \in existing_ids
  /\ skipped_count' = skipped_count + 1
  /\ outcome' = Append(outcome, "SkippedDuplicate")
  /\ UNCHANGED <<backend, store, pc, payments, sorted_payments, existing_ids,
                 rows_to_insert, created_count, failed_count, errors, exception,
                 store_start, read_status>>
  /\ UNCHANGED <<mailVars, extractVars, setupVars>>

\* loop body, the row is staged and its id joins the known set
SheetsStage ==
  /\ backend = "sheets"
  /\ pc = "loop"
  /\ Len(outcome) < Len(sorted_payments)
  /\ LET p == sorted_payments[Len(outcome) + 1]
     IN  /\ p.message_id \notin existing_ids
         /\ rows_to_insert' = Append(rows_to_insert, p)
         /\ existing_ids' = existing_ids \cup {p.message_id}
  /\ outcome' = Append(outcome, "Staged")
  /\ UNCHANGED <<backend, store, pc, payments, sorted_payments, created_count,
                 skipped_count, failed_count, errors, exception, store_start,
                 read_status>>
  /\ UNCHANGED <<mailVars, extractVars, setupVars>>

\* after the loop with nothing staged: the result is returned
SheetsReturnNothingStaged ==
  /\ backend = "sheets"
  /\ pc = "loop"
  /\ Len(outcome) = Len(sorted_payments)
  /\ rows_to_insert = <<>>
  /\ pc' = "returned"
  /\ UNCHANGED <<backend, store, payments, sorted_payments, existing_ids,
                 rows_to_insert, created_count, skipped_count, failed_count,
                 errors, exception, outcome, store_start, read_status>>
  /\ UNCHANGED <<mailVars, extractVars, setupVars>>

\* variant: the batch write is counted as one created record
SheetsAppendRows_CountsOne ==
  /\ backend = "sheets"
  /\ pc = "loop"
  /\ Len(outcome) = Len(sorted_payments)
  /\ rows_to_insert /= <<>>
  /\ store' = AddRows(store, rows_to_insert)
  /\ created_count' = 1
  /\ outcome' = [k \in 1..Len(outcome) |->
                   IF outcome[k] = "Staged" THEN "Created" ELSE outcome[k]]
  /\ pc' = "returned"
  /\ UNCHANGED <<backend, payments, sorted_payments, existing_ids,
                 rows_to_insert, skipped_count, failed_count, errors, exception,
                 store_start, read_status>>
  /\ UNCHANGED <<mailVars, extractVars, setupVars>>

\* append_rows(rows_to_insert) succeeds: every staged row is in the sheet
SheetsAppendRows ==
  /\ backend = "sheets"
  /\ pc = "loop"
  /\ Len(outcome) = Len(sorted_payments)
  /\ rows_to_insert /= <<>>
  /\ store' = AddRows(store, rows_to_insert)
  /\ created_count' = Len(rows_to_insert)
  /\ outcome' = [k \in 1..Len(outcome) |->
                   IF outcome[k] = "Staged" THEN "Created" ELSE outcome[k]]
  /\ pc' = "returned"
  /\ UNCHANGED <<backend, payments, sorted_payments, existing_ids,
                 rows_to_insert, skipped_count, failed_count, errors, exception,
                 store_start, read_status>>
  /\ UNCHANGED <<mailVars, extractVars, setupVars>>

\* append_rows raises: the outer handler logs and re-raises
SheetsAppendRowsFail ==
  /\ backend = "sheets"
  /\ pc = "loop"
  /\ Len(outcome) = Len(sorted_payments)
  /\ rows_to_insert /= <<>>
  /\ pc' = "raised"
  /\ exception' = "APIError"
  /\ UNCHANGED <<backend, store, payments, sorted_payments, existing_ids,
                 rows_to_insert, created_count, skipped_count, failed_count,
                 errors, outcome, store_start, read_status>>
  /\ UNCHANGED <<mailVars, extractVars, setupVars>>

Next ==
  \/ \E b \in Batches : Call(b)
  \/ CallEnds
  \/ NotionGetExistingMessageIds
  \/ NotionSkipDuplicate
  \/ NotionCreateOk
  \/ NotionCreateFail
  \/ NotionReturn
  \/ SheetsGetExistingMessageIds
  \/ SheetsSort
  \/ SheetsSkipDuplicate
  \/ SheetsStage
  \/ SheetsReturnNothingStaged
  \/ SheetsAppendRows
  \/ SheetsAppendRowsFail

Spec == Init /\ [][Next]_vars

(***************************************************************************)
(* Properties of create_payment_records                                    *)
(***************************************************************************)
Finished == pc \in {"returned", "raised"}

BatchIds(batch) == {batch[k].message_id : k \in 1..Len(batch)}

DistinctIds(batch) ==
  \A i, j \in 1..Len(batch) : i /= j => batch[i].message_id /= batch[j].message_id

\* no write of the call failed and the store answered every write
WritesSucceeded == failed_count = 0 /\ exception /= "APIError"

\* C1: a batch of N records with pairwise distinct message_ids, none of them
\* in the store, is synced with created = N and no duplicate; the same batch
\* synced against the resulting store gives created = 0, N duplicates and no
\* new row.  Stated for the calls whose store read and writes all succeed and
\* whose ids are not empty.
C1_Idempotence ==
  /\ ( /\ Finished
       /\ DistinctIds(payments)
       /\ EmptyId \notin BatchIds(payments)
       /\ \A m \in BatchIds(payments) : store_start[m] = 0
       /\ read_status /= "failed"
       /\ WritesSucceeded )
     => ( /\ pc = "returned"
          /\ created_count = Len(payments)
          /\ skipped_count = 0 )
  /\ ( /\ Finished
       /\ DistinctIds(payments)
       /\ EmptyId \notin BatchIds(payments)
       /\ \A m \in BatchIds(payments) : store_start[m] = 1
       /\ read_status /= "failed"
       /\ WritesSucceeded )
     => ( /\ pc = "returned"
          /\ created_count = 0
          /\ skipped_count = Len(payments)
          /\ store = store_start )

\* C2 as claimed: whatever the reads and writes did, the store never holds two
\* rows with the same message_id
C2_StoreUnique == \A m \in MessageIds : store[m] <= 1

\* C2 as amended: a call whose read of the existing ids succeeded never adds a
\* row for a non-empty message_id that the store already holds, and adds at
\* most one row per such id (so the store stays free of duplicates of non-empty
\* ids for as long as no read fails)
C2_NoDuplicateAfterGoodRead ==
  [][ read_status = "ok" =>
        \A m \in MessageIds \ {EmptyId} :
          store'[m] = store[m] \/ (store[m] = 0 /\ store'[m] = 1) ]_vars

\* a call read the ids of a non-empty store and skipped one record, created another
C2_Witness ==
  /\ pc = "returned"
  /\ read_status = "ok"
  /\ StoreSize(store_start) > 0
  /\ skipped_count = 1
  /\ created_count = 1

\* C3: of two records of one batch with the same message_id, not yet in the
\* store, a returning call creates exactly one and skips the other, and the
\* one created is the first of the two in the newest-first order of the batch
C3_IntraBatchNewestWins ==
  ( /\ pc = "returned"
    /\ Len(payments) = 2
    /\ payments[1].message_id = payments[2].message_id
    /\ store_start[payments[1].message_id] = 0
    /\ WritesSucceeded )
  => ( /\ created_count = 1
       /\ skipped_count = 1
       /\ \E k \in 1..Len(outcome) :
            /\ outcome[k] = "Created"
            /\ Iterated[k] = SortedPayments(payments)[1] )

\* C4: when the read of the existing ids fails the call goes on with an empty
\* known set and, for N records with distinct message_ids, does not abort and
\* reports created = N and no duplicate.  Stated for the calls whose writes
\* all succeed.
C4_DegradedReadProceeds ==
  /\ (read_status = "failed" /\ outcome = <<>>) => existing_ids = {}
  /\ ( /\ Finished
       /\ read_status = "failed"
       /\ DistinctIds(payments)
       /\ WritesSucceeded )
     => ( /\ pc = "returned"
          /\ created_count = Len(payments)
          /\ skipped_count = 0 )

\* C5: in the one-write-per-record backend a failed write adds one to failed
\* and one entry to errors, the records written before stay in the store, the
\* records after it are still processed, and the call returns, never raises
C5_WriteFailureIsolated ==
  backend = "notion" =>
    /\ pc /= "raised"
    /\ failed_count = Count(outcome, "Failed")
    /\ Len(errors) = failed_count
    /\ \A k \in 1..Len(errors) : outcome[errors[k]] = "Failed"
    /\ \A m \in MessageIds : store[m] >= store_start[m]
    /\ StoreSize(store) = StoreSize(store_start) + Count(outcome, "Created")
    /\ pc = "returned" => Len(outcome) = Len(payments)

\* the first write failed, the second record was still written, the call returned
C5_Witness ==
  /\ backend = "notion"
  /\ pc = "returned"
  /\ outcome = <<"Failed", "Created">>
  /\ failed_count = 1
  /\ Len(errors) = 1

\* C6: the call raises only when the store cannot be reached, whatever the
\* batch holds (dates empty, unparseable or valid, in any mix)
C6_RaisesOnlyWhenStoreUnreachable == pc = "raised" => exception = "APIError"

\* C7: when the call returns every record is Created, SkippedDuplicate or
\* Failed, the three counts are the numbers of records in these states (the
\* created ones being the rows added to the store) and add up to the batch size
C7_OutcomeCounts ==
  pc = "returned" =>
    /\ Len(outcome) = Len(payments)
    /\ \A k \in 1..Len(outcome) :
         outcome[k] \in {"Created", "SkippedDuplicate", "Failed"}
    /\ created_count = Count(outcome, "Created")
    /\ skipped_count = Count(outcome, "SkippedDuplicate")
    /\ failed_count = Count(outcome, "Failed")
    /\ created_count = StoreSize(store) - StoreSize(store_start)
    /\ created_count + skipped_count + failed_count = Len(payments)

\* a call returned with one record created and one skipped as a duplicate
C7_Witness ==
  /\ pc = "returned"
  /\ Len(payments) = 2
  /\ created_count = 1
  /\ skipped_count = 1

\* C8: when the call returns, every record whose message_id was not in the
\* store when the call began and that was not counted as failed has its
\* message_id in the store, also after a failed read of the existing ids
C8_NoDataLoss ==
  pc = "returned" =>
    \A k \in 1..Len(outcome) :
      ( /\ store_start[Iterated[k].message_id] = 0
        /\ outcome[k] /= "Failed" )
      => store[Iterated[k].message_id] > 0

\* a call on a non-empty store whose read failed returned after writing records
C8_Witness ==
  /\ pc = "returned"
  /\ read_status = "failed"
  /\ StoreSize(store_start) > 0
  /\ Len(payments) = 2
  /\ created_count >= 1
  /\ \E k \in 1..Len(outcome) : store_start[Iterated[k].message_id] = 0

(***************************************************************************)
(* PaymentExtractor.extract_all_payments                                   *)
(***************************************************************************)
\* number of messages in the mailbox (their IMAP sequence numbers are 1..)
MailboxSize == 2

\* self.services, in the order of the dict
Services == <<"wise", "paypal", "remitly", "billcom">>

SeqNums == 1..MailboxSize

\* messages[0].split(): the matching sequence numbers, ascending
RECURSIVE Ascending(_)
Ascending(S) ==
  IF S = {} THEN <<>>
  ELSE LET m == CHOOSE x \in S : \A y \in S : x <= y
       IN  <<m>> \o Ascending(S \ {m})

\* variant: the search result is walked as returned
Reversed_Keeps(s) == s

\* reversed(message_ids)
RECURSIVE Reversed(_)
Reversed(s) == IF s = <<>> THEN <<>> ELSE Append(Reversed(Tail(s)), Head(s))

\* where the run goes once service k has been processed
AfterService(k) == IF k = Len(Services) THEN "close" ELSE "search"

\* extract_all_payments is entered
ExtractAllPayments ==
  /\ mpc = "idle"
  /\ mpc' = "connect"
  /\ all_payments' = <<>>
  /\ UNCHANGED <<conn_open, logged_out, propagating, svc, pending,
                 service_payments, search_ok_seen, fetch_seen, fetch_ok_seen>>
  /\ UNCHANGED messageVars
  /\ UNCHANGED <<syncVars, extractVars, setupVars>>

\* _connect_to_gmail: imaplib.IMAP4_SSL("imap.gmail.com")
ConnectOpen ==
  /\ mpc = "connect"
  /\ \E ok \in BOOLEAN :
       /\ conn_open' = ok
       /\ mpc' = IF ok THEN "login" ELSE "raised"
  /\ UNCHANGED <<logged_out, propagating, svc, pending, service_payments,
                 all_payments, search_ok_seen, fetch_seen, fetch_ok_seen>>
  /\ UNCHANGED messageVars
  /\ UNCHANGED <<syncVars, extractVars, setupVars>>

\* _connect_to_gmail: mail.login(...); the handler logs and re-raises
ConnectLogin ==
  /\ mpc = "login"
  /\ \E ok \in BOOLEAN : mpc' = IF ok THEN "select" ELSE "raised"
  /\ UNCHANGED <<conn_open, logged_out, propagating, svc, pending,
                 service_payments, all_payments, search_ok_seen, fetch_seen,
                 fetch_ok_seen>>
  /\ UNCHANGED messageVars
  /\ UNCHANGED <<syncVars, extractVars, setupVars>>

\* _connect_to_gmail: mail.select("inbox"); the handler logs and re-raises
ConnectSelect ==
  /\ mpc = "select"
  /\ \E ok \in BOOLEAN :
       /\ mpc' = IF ok THEN "search" ELSE "raised"
       /\ svc' = IF ok THEN 1 ELSE svc
  /\ UNCHANGED <<conn_open, logged_out, propagating, pending, service_payments,
                 all_payments, search_ok_seen, fetch_seen, fetch_ok_seen>>
  /\ UNCHANGED messageVars
  /\ UNCHANGED <<syncVars, extractVars, setupVars>>

\* _extract_service_payments: mail.search raises; the handler returns []
SearchRaises ==
  /\ mpc = "search"
  /\ mpc' = AfterService(svc)
  /\ svc' = svc + 1
  /\ UNCHANGED <<conn_open, logged_out, propagating, pending, service_payments,
                 all_payments, search_ok_seen, fetch_seen, fetch_ok_seen>>
  /\ search_found' = {}
  /\ handled' = {}
  /\ UNCHANGED <<built_all, msg_failed>>
  /\ UNCHANGED <<syncVars, extractVars, setupVars>>

\* _extract_service_payments: status is not OK or no message matches: []
SearchFindsNothing ==
  /\ mpc = "search"
  /\ mpc' = AfterService(svc)
  /\ svc' = svc + 1
  /\ search_ok_seen' = TRUE
  /\ UNCHANGED <<conn_open, logged_out, propagating, pending, service_payments,
                 all_payments, fetch_seen, fetch_ok_seen>>
  /\ search_found' = {}
  /\ handled' = {}
  /\ UNCHANGED <<built_all, msg_failed>>
  /\ UNCHANGED <<syncVars, extractVars, setupVars>>

\* _extract_service_payments: the search answers OK with matching messages
SearchFinds(found) ==
  /\ mpc = "search"
  /\ found /= {}
  /\ pending' = Reversed(Ascending(found))
  /\ service_payments' = <<>>
  /\ search_ok_seen' = TRUE
  /\ mpc' = "messages"
  /\ UNCHANGED <<conn_open, logged_out, propagating, svc, all_payments,
                 fetch_seen, fetch_ok_seen>>
  /\ search_found' = found
  /\ handled' = {}
  /\ UNCHANGED <<built_all, msg_failed>>
  /\ UNCHANGED <<syncVars, extractVars, setupVars>>

\* _extract_payment_from_message returns a payment dict
MessageBuilt ==
  /\ mpc = "messages"
  /\ pending /= <<>>
  /\ service_payments' =
       Append(service_payments, [service |-> Services[svc], message_id |-> Head(pending)])
  /\ pending' = Tail(pending)
  /\ fetch_seen' = TRUE
  /\ fetch_ok_seen' = TRUE
  /\ UNCHANGED <<mpc, conn_open, logged_out, propagating, svc, all_payments,
                 search_ok_seen>>
  /\ handled' = handled \cup {Head(pending)}
  /\ built_all' =
       Append(built_all, [service |-> Services[svc], message_id |-> Head(pending)])
  /\ UNCHANGED <<search_found, msg_failed>>
  /\ UNCHANGED <<syncVars, extractVars, setupVars>>

\* _extract_payment_from_message returns None after an OK fetch: not a
\* payment email, no amount, or an exception while decoding
MessageNoRecord ==
  /\ mpc = "messages"
  /\ pending /= <<>>
  /\ pending' = Tail(pending)
  /\ fetch_seen' = TRUE
  /\ fetch_ok_seen' = TRUE
  /\ UNCHANGED <<mpc, conn_open, logged_out, propagating, svc, service_payments,
                 all_payments, search_ok_seen>>
  /\ handled' = handled \cup {Head(pending)}
  /\ UNCHANGED <<search_found, built_all, msg_failed>>
  /\ UNCHANGED <<syncVars, extractVars, setupVars>>

\* variant: a failed fetch ends the message loop of the service
MessageFetchFails_EndsService ==
  /\ mpc = "messages"
  /\ pending /= <<>>
  /\ pending' = <<>>
  /\ fetch_seen' = TRUE
  /\ handled' = handled \cup {Head(pending)}
  /\ msg_failed' = TRUE
  /\ UNCHANGED <<search_found, built_all>>
  /\ UNCHANGED <<mpc, conn_open, logged_out, propagating, svc, service_payments,
                 all_payments, search_ok_seen, fetch_ok_seen>>
  /\ UNCHANGED <<syncVars, extractVars, setupVars>>

\* _extract_payment_from_message returns None: mail.fetch raised or its status
\* was not OK
MessageFetchFails ==
  /\ mpc = "messages"
  /\ pending /= <<>>
  /\ pending' = Tail(pending)
  /\ fetch_seen' = TRUE
  /\ UNCHANGED <<mpc, conn_open, logged_out, propagating, svc, service_payments,
                 all_payments, search_ok_seen, fetch_ok_seen>>
  /\ handled' = handled \cup {Head(pending)}
  /\ msg_failed' = TRUE
  /\ UNCHANGED <<search_found, built_all>>
  /\ UNCHANGED <<syncVars, extractVars, setupVars>>

\* _extract_service_payments returns payments; all_payments.extend(payments)
ServiceComplete ==
  /\ mpc = "messages"
  /\ pending = <<>>
  /\ all_payments' = all_payments \o service_payments
  /\ service_payments' = <<>>
  /\ mpc' = AfterService(svc)
  /\ svc' = svc + 1
  /\ UNCHANGED <<conn_open, logged_out, propagating, pending, search_ok_seen,
                 fetch_seen, fetch_ok_seen>>
  /\ UNCHANGED messageVars
  /\ UNCHANGED <<syncVars, extractVars, setupVars>>

\* an exception leaves the body of the try in extract_all_payments (raised in
\* _extract_service_payments before its own try, e.g. timedelta(days=days_back)
\* with a days_back that is no number): logged, re-raised, the finally runs
ServiceLoopRaises ==
  /\ mpc = "search"
  /\ propagating' = TRUE
  /\ mpc' = "close"
  /\ UNCHANGED <<conn_open, logged_out, svc, pending, service_payments,
                 all_payments, search_ok_seen, fetch_seen, fetch_ok_seen>>
  /\ UNCHANGED messageVars
  /\ UNCHANGED <<syncVars, extractVars, setupVars>>

\* finally: mail.close(); when it raises, the finally block is left at once
MailClose ==
  /\ mpc = "close"
  /\ \E ok \in BOOLEAN : mpc' = IF ok THEN "logout" ELSE "raised"
  /\ UNCHANGED <<conn_open, logged_out, propagating, svc, pending,
                 service_payments, all_payments, search_ok_seen, fetch_seen,
                 fetch_ok_seen>>
  /\ UNCHANGED messageVars
  /\ UNCHANGED <<syncVars, extractVars, setupVars>>

\* finally: mail.logout(); then the pending exception goes on, or the list
\* is returned
MailLogout ==
  /\ mpc = "logout"
  /\ \E ok \in BOOLEAN :
       /\ logged_out' = ok
       /\ mpc' = IF ok /\ ~propagating THEN "returned" ELSE "raised"
  /\ UNCHANGED <<conn_open, propagating, svc, pending, service_payments,
                 all_payments, search_ok_seen, fetch_seen, fetch_ok_seen>>
  /\ UNCHANGED messageVars
  /\ UNCHANGED <<syncVars, extractVars, setupVars>>

MailNext ==
  \/ ExtractAllPayments
  \/ ConnectOpen
  \/ ConnectLogin
  \/ ConnectSelect
  \/ SearchRaises
  \/ SearchFindsNothing
  \/ \E found \in SUBSET SeqNums : SearchFinds(found)
  \/ MessageBuilt
  \/ MessageNoRecord
  \/ MessageFetchFails
  \/ ServiceComplete
  \/ ServiceLoopRaises
  \/ MailClose
  \/ MailLogout

MailInit ==
  /\ backend = "notion"
  /\ SyncIdle
  /\ MailIdle
  /\ SetupIdle
  /\ ExtractIdle

SpecMail == MailInit /\ [][MailNext]_vars

(***************************************************************************)
(* Properties of extract_all_payments                                      *)
(***************************************************************************)
\* C9: whenever a run that opened a mailbox connection has ended (list
\* returned or exception raised), the connection has been logged out
C9_ConnectionReleased ==
  (mpc \in {"returned", "raised"} /\ conn_open) => logged_out

\* C10: a run in which every search raised, or in which every fetch failed,
\* does not return a list of payments: it ends by raising
C10_ConnectionFailureSurfaced ==
  mpc = "returned" => (search_ok_seen /\ (fetch_seen => fetch_ok_seen))

\* C11: a message whose fetch fails (or that yields no record) costs only its
\* own record: every message the search returned is handed to
\* _extract_payment_from_message, every later service is searched, and a run
\* that returns hands back every record built, in the order they were built
C11_MessageFailureIsolated ==
  /\ mpc = "messages" => handled \cup {pending[k] : k \in 1..Len(pending)} = search_found
  /\ mpc \in {"search", "close", "logout", "returned"} => handled = search_found
  /\ all_payments \o service_payments = built_all
  /\ mpc = "returned" => (svc = Len(Services) + 1 /\ all_payments = built_all)

\* a run returned records although the fetch of a message failed, one of the
\* records from a service searched after the failure
C11_Witness ==
  /\ mpc = "returned"
  /\ msg_failed
  /\ Len(all_payments) >= 2
  /\ \E k \in 1..Len(all_payments) : all_payments[k].service = "billcom"

(***************************************************************************)
(* _extract_payment_from_message, from the text of a fetched message on    *)
(***************************************************************************)
FullText == Join(words)

\* `if not amount`
Absent(x) == x = None \/ x = <<>>

\* is_payment = self._is_payment_email(full_text); None is returned when not
CheckPaymentEmail ==
  /\ epc = "gate"
  /\ epc' = IF IsPaymentEmail(FullText) THEN "amount" ELSE "none"
  /\ UNCHANGED <<words, amount, currency, sender, date_str, now_t, days_ago>>
  /\ UNCHANGED <<syncVars, mailVars, setupVars>>

\* amount, currency = self._extract_amount(full_text); None is returned when
\* there is no amount
AmountExtracted ==
  /\ epc = "amount"
  /\ amount' = ExtractAmount(FullText).amount
  /\ currency' = ExtractAmount(FullText).currency
  /\ epc' = IF Absent(amount') THEN "none" ELSE "details"
  /\ UNCHANGED <<words, sender, date_str, now_t, days_ago>>
  /\ UNCHANGED <<syncVars, mailVars, setupVars>>

\* sender and days_ago are computed and the payment dict is built
PaymentBuilt ==
  /\ epc = "details"
  /\ sender' = ExtractSender(FullText)
  /\ days_ago' = CalculateDaysAgo(date_str, now_t)
  /\ epc' = "built"
  /\ UNCHANGED <<words, amount, currency, date_str, now_t>>
  /\ UNCHANGED <<syncVars, mailVars, setupVars>>

ExtractNext ==
  \/ CheckPaymentEmail
  \/ AmountExtracted
  \/ PaymentBuilt

\* a message with any of the texts, without a usable Date header
ExtractInit ==
  /\ backend = "notion"
  /\ SyncIdle
  /\ MailIdle
  /\ SetupIdle
  /\ words \in Texts
  /\ epc = "gate"
  /\ amount = None
  /\ currency = None
  /\ sender = <<>>
  /\ date_str = NoDate
  /\ now_t = 0
  /\ days_ago = <<>>

SpecExtract == ExtractInit /\ [][ExtractNext]_vars

(***************************************************************************)
(* _calculate_days_ago on its own, for every Date header and time of day   *)
(***************************************************************************)
DaysAgoCalculated ==
  /\ epc = "age"
  /\ days_ago' = CalculateDaysAgo(date_str, now_t)
  /\ epc' = "aged"
  /\ UNCHANGED <<words, amount, currency, sender, date_str, now_t>>
  /\ UNCHANGED <<syncVars, mailVars, setupVars>>

AgeInit ==
  /\ backend = "notion"
  /\ SyncIdle
  /\ MailIdle
  /\ SetupIdle
  /\ words = <<>>
  /\ epc = "age"
  /\ amount = None
  /\ currency = None
  /\ sender = <<>>
  /\ date_str \in DateHeaders
  /\ now_t \in Times
  /\ days_ago = <<>>

SpecAge == AgeInit /\ [][DaysAgoCalculated]_vars

(***************************************************************************)
(* _extract_amount and _extract_sender on their own, for every text        *)
(***************************************************************************)
ExtractAmountCalled ==
  /\ epc = "text"
  /\ amount' = ExtractAmount(FullText).amount
  /\ currency' = ExtractAmount(FullText).currency
  /\ epc' = "amount_returned"
  /\ UNCHANGED <<words, sender, date_str, now_t, days_ago>>
  /\ UNCHANGED <<syncVars, mailVars, setupVars>>

ExtractSenderCalled ==
  /\ epc = "text"
  /\ sender' = ExtractSender(FullText)
  /\ epc' = "sender_returned"
  /\ UNCHANGED <<words, amount, currency, date_str, now_t, days_ago>>
  /\ UNCHANGED <<syncVars, mailVars, setupVars>>

TextNext ==
  \/ ExtractAmountCalled
  \/ ExtractSenderCalled

TextInit ==
  /\ backend = "notion"
  /\ SyncIdle
  /\ MailIdle
  /\ SetupIdle
  /\ words \in Texts
  /\ epc = "text"
  /\ amount = None
  /\ currency = None
  /\ sender = <<>>
  /\ date_str = NoDate
  /\ now_t = 0
  /\ days_ago = <<>>

SpecText == TextInit /\ [][TextNext]_vars

(***************************************************************************)
(* Properties of the extraction functions, stated on the fragments the     *)
(* text was put together from                                              *)
(***************************************************************************)
\* the fragments that are left when the tags are removed
Visible == SelectSeq(words, LAMBDA w : w /= BoldTag)
\* the fragments that hold a payment keyword
KeywordFragments == {HasSentYou6600, PaidComma, HasSentYou5, PaidYou, YouGotPaidBy}
HasKeyword == \E k \in 1..Len(words) : words[k] \in KeywordFragments
SixThousandSixHundred == <<"6","6","0","0">>
PHP == <<"P","H","P">>

\* C12: a record is built exactly for the texts that hold a payment keyword
\* and for which _extract_amount yields an amount; _extract_amount returns an
\* amount and a currency or neither of them, neither when no pattern matches;
\* a built record has both
C12_RecordGate ==
  /\ epc \in {"built", "none"} =>
       (epc = "built" <=> (HasKeyword /\ ~Absent(ExtractAmount(FullText).amount)))
  /\ Absent(amount) <=> Absent(currency)
  /\ epc = "built" => (~Absent(amount) /\ ~Absent(currency))

\* C13: the currency _extract_amount returns is one of USD, PHP, EUR, GBP, CAD
C13_CurrencyClosedSet ==
  (epc = "amount_returned" /\ currency /= None) => currency \in CurrencyCodes

\* a non-empty string of digits with at most one decimal point
NumericShape(x) ==
  /\ x /= <<>>
  /\ \A k \in 1..Len(x) : x[k] \in Digits \cup {"."}
  /\ Cardinality({k \in 1..Len(x) : x[k] = "."}) <= 1
\* an alphabetic code
AlphabeticCode(x) == Len(x) = 3 /\ \A k \in 1..Len(x) : x[k] \in Letters

\* C14: whenever a pattern matches, the amount returned is the numeric group
\* without its separators and the currency the alphabetic code group
C14_GroupAssignment ==
  (epc = "amount_returned" /\ amount /= None) =>
    (NumericShape(amount) /\ AlphabeticCode(currency))

\* positions of "has sent you 6,600" followed by a currency code
PhrasePositions ==
  {k \in 1..(Len(Visible) - 1) :
     Visible[k] = HasSentYou6600 /\ Upper(Visible[k + 1]) \in CurrencyCodes}
FirstPhrase == CHOOSE k \in PhrasePositions : \A j \in PhrasePositions : k <= j

C16_ImplicitDefaultCurrency ==
  ( /\ epc = "amount_returned"
    /\ Visible /= <<>>
    /\ Visible[1] = HasSentYou6600
    /\ \A k \in 2..Len(Visible) : Visible[k] = Acme )
  => (amount = SixThousandSixHundred /\ currency = PHP)

\* C17: when the symbol-prefixed pattern is the one that matches and the text
\* holds no currency code, the currency is the default
C17_SymbolDoesNotDecide ==
  ( /\ epc = "amount_returned"
    /\ \A k \in 1..Len(words) : words[k] \in {Dollar50, Peso50, PaidComma, Acme, BoldTag}
    /\ \E k \in 1..Len(words) : words[k] \in {Dollar50, Peso50} )
  => currency = PHP

\* the patterns whose cleaned capture is long enough
QualifyingSenderPatterns ==
  LET clean_text == CleanHtmlText(FullText)
  IN  {i \in 0..4 :
         /\ SenderSearchFrom(i, clean_text, Upper(clean_text), 1) /= NoMatch
         /\ Len(CleanedSender(SenderSearchFrom(i, clean_text, Upper(clean_text), 1))) >= 3}
\* the patterns that match with a shorter capture
ShortSenderPatterns ==
  LET clean_text == CleanHtmlText(FullText)
  IN  {i \in 0..4 :
         /\ SenderSearchFrom(i, clean_text, Upper(clean_text), 1) /= NoMatch
         /\ Len(CleanedSender(SenderSearchFrom(i, clean_text, Upper(clean_text), 1))) < 3}

C19_RelativeAgeLabel ==
  epc = "aged" =>
    IF date_str = NoDate THEN days_ago = <<"Unknown">>
    ELSE LET days == (now_t - date_str) \div PartsPerDay
         IN  /\ days = 0 => days_ago = <<"Today">>
             /\ days = 1 => days_ago = <<"Yesterday">>
             /\ days \notin {0, 1} => (days_ago = <<days, " days ago">> /\ days > 0)

(***************************************************************************)
(* A run on the database client: ensure_database_setup, then               *)
(* create_payment_records with the payments that were extracted            *)
(***************************************************************************)
\* the database as the run finds it: with the required properties, with one
\* missing, with one of another type, with both defects, or no database_id
Schemas == {"valid", "missing", "wrong_type", "missing_and_wrong_type", "absent"}

\* _update_database_schema adds the properties that are missing
WithMissingAdded(sch) ==
  CASE sch = "missing" -> "valid"
    [] sch = "missing_and_wrong_type" -> "wrong_type"
    [] OTHER -> sch

\* ensure_database_setup with a database_id: _validate_database_schema; it
\* answers False when a property is missing or of another type, and when
\* databases.retrieve raises
ValidateDatabaseSchema ==
  /\ tpc = "setup"
  /\ schema /= "absent"
  /\ \E readable \in BOOLEAN :
       tpc' = IF readable /\ schema = "valid" THEN "sync" ELSE "update"
  /\ UNCHANGED schema
  /\ UNCHANGED <<sheetVars, triggerVars>>
  /\ UNCHANGED <<syncVars, mailVars, extractVars>>

\* _update_database_schema: retrieve, add what is missing; an exception of
\* retrieve or update is raised on
UpdateDatabaseSchema ==
  /\ tpc = "update"
  /\ \E readable, updated \in BOOLEAN :
       IF ~readable THEN tpc' = "aborted" /\ UNCHANGED schema
       ELSE IF WithMissingAdded(schema) = schema THEN tpc' = "sync" /\ UNCHANGED schema
       ELSE IF updated THEN tpc' = "sync" /\ schema' = WithMissingAdded(schema)
       ELSE tpc' = "aborted" /\ UNCHANGED schema
  /\ UNCHANGED <<sheetVars, triggerVars>>
  /\ UNCHANGED <<syncVars, mailVars, extractVars>>

\* ensure_database_setup without a database_id: _create_database
CreateDatabase ==
  /\ tpc = "setup"
  /\ schema = "absent"
  /\ \E created \in BOOLEAN :
       IF created THEN tpc' = "sync" /\ schema' = "valid"
       ELSE tpc' = "aborted" /\ UNCHANGED schema
  /\ UNCHANGED <<sheetVars, triggerVars>>
  /\ UNCHANGED <<syncVars, mailVars, extractVars>>

\* notion_client.create_payment_records(payments), payments not empty
SyncAfterSetup(b) ==
  /\ tpc = "sync"
  /\ b /= <<>>
  /\ Call(b)

SetupNext ==
  \/ ValidateDatabaseSchema
  \/ UpdateDatabaseSchema
  \/ CreateDatabase
  \/ \E b \in Batches : SyncAfterSetup(b)
  \/ NotionGetExistingMessageIds
  \/ NotionSkipDuplicate
  \/ NotionCreateOk
  \/ NotionCreateFail
  \/ NotionReturn

SetupInit ==
  /\ backend = "notion"
  /\ SyncIdle
  /\ MailIdle
  /\ ExtractIdle
  /\ tpc = "setup"
  /\ schema \in Schemas
  /\ SheetIdle
  /\ TriggerIdle

SpecSetup == SetupInit /\ [][SetupNext]_vars

\* C20: while the database is not as required, or set-up has raised, no call
\* of create_payment_records is under way and no record has been written
C20_SetupFailureAborts ==
  (schema /= "valid" \/ tpc = "aborted") => (pc = "idle" /\ store = EmptyStore)

(***************************************************************************)
(* The set-up of the sheet, ensure_spreadsheet_setup, followed by calls of *)
(* create_payment_records on the sheet client.                             *)
(***************************************************************************)
HeaderRows == {"correct", "missing", "different"}

\* the data rows a sheet may hold when a run begins: at most one per id
SheetStores == [MessageIds -> {0, 1}]

\* open_by_key(...).sheet1 and _ensure_sheet_named_data
OpenSpreadsheet ==
  /\ tpc = "open"
  /\ \E opened \in BOOLEAN : tpc' = IF opened THEN "row_values" ELSE "aborted"
  /\ UNCHANGED <<schema, sheetVars, triggerVars>>
  /\ UNCHANGED <<syncVars, mailVars, extractVars>>

\* existing_headers = self.sheet.row_values(3) and the comparison with
\* HEADERS; an exception of the read leads into the inner except branch
RowValues ==
  /\ tpc = "row_values"
  /\ \E readable \in BOOLEAN :
       tpc' = IF ~readable THEN "clear_unreadable"
              ELSE IF headers = "correct" THEN "stamp"
              ELSE "clear"
  /\ UNCHANGED <<schema, sheetVars, triggerVars>>
  /\ UNCHANGED <<syncVars, mailVars, extractVars>>

\* self.sheet.clear(): every cell of the sheet is emptied
SheetClear ==
  /\ tpc \in {"clear", "clear_unreadable"}
  /\ \E cleared \in BOOLEAN :
       IF cleared
       THEN /\ store' = EmptyStore
            /\ headers' = "missing"
            /\ last_run' = FALSE
            /\ tpc' = "structure"
       ELSE /\ tpc' = "aborted"
            /\ UNCHANGED <<store, headers, last_run>>
  /\ UNCHANGED <<backend, pc, payments, sorted_payments, existing_ids,
                 rows_to_insert, created_count, skipped_count, failed_count,
                 errors, exception, outcome, store_start, read_status>>
  /\ UNCHANGED <<schema, triggerVars>>
  /\ UNCHANGED <<mailVars, extractVars>>

\* after the clear: update('A1', 'Last Run: ...'), then the header row is
\* written to A3:E3; either update may raise
WriteStructure ==
  /\ tpc = "structure"
  /\ \E stamped, written \in BOOLEAN :
       IF ~stamped THEN tpc' = "aborted" /\ UNCHANGED <<headers, last_run>>
       ELSE IF ~written THEN tpc' = "aborted" /\ last_run' = TRUE /\ UNCHANGED headers
       ELSE tpc' = "ready" /\ last_run' = TRUE /\ headers' = "correct"
  /\ UNCHANGED <<schema, triggerVars>>
  /\ UNCHANGED <<syncVars, mailVars, extractVars>>

\* headers already as required: only update('A1', 'Last Run: ...')
UpdateLastRun ==
  /\ tpc = "stamp"
  /\ \E stamped \in BOOLEAN :
       IF stamped THEN tpc' = "ready" /\ last_run' = TRUE
       ELSE tpc' = "aborted" /\ UNCHANGED last_run
  /\ UNCHANGED <<schema, headers, triggerVars>>
  /\ UNCHANGED <<syncVars, mailVars, extractVars>>

\* ensure_spreadsheet_setup is called once more (a later run of the process)
SetupAgain ==
  /\ tpc = "ready"
  /\ pc = "idle"
  /\ tpc' = "open"
  /\ UNCHANGED <<schema, sheetVars, triggerVars>>
  /\ UNCHANGED <<syncVars, mailVars, extractVars>>

\* create_payment_records on a client whose self.sheet is set
SheetsSyncAfterSetup(b) ==
  /\ tpc = "ready"
  /\ Call(b)

SheetSetupNext ==
  \/ OpenSpreadsheet
  \/ RowValues
  \/ SheetClear
  \/ WriteStructure
  \/ UpdateLastRun
  \/ SetupAgain
  \/ \E b \in Batches : SheetsSyncAfterSetup(b)
  \/ CallEnds
  \/ SheetsGetExistingMessageIds
  \/ SheetsSort
  \/ SheetsSkipDuplicate
  \/ SheetsStage
  \/ SheetsReturnNothingStaged
  \/ SheetsAppendRows
  \/ SheetsAppendRowsFail

SheetSetupInit ==
  /\ backend = "sheets"
  /\ store \in SheetStores
  /\ CallIdle
  /\ MailIdle
  /\ ExtractIdle
  /\ tpc = "open"
  /\ schema = "valid"
  /\ headers \in HeaderRows
  /\ last_run \in BOOLEAN
  /\ TriggerIdle

SpecSheetSetup == SheetSetupInit /\ [][SheetSetupNext]_vars

\* a step of ensure_spreadsheet_setup
SheetSetupStep == tpc \in {"open", "row_values", "clear", "clear_unreadable", "structure", "stamp"}

\* C21: set-up on a sheet whose header row is as required changes neither the
\* header row nor any data row, and no record is written before set-up is done
C21_SetupIdempotent ==
  [][(SheetSetupStep /\ headers = "correct") => (headers' = headers /\ store' = store)]_vars
  /\ [](pc /= "idle" => tpc = "ready")

\* C28: no step of ensure_spreadsheet_setup removes or alters a data row,
\* whatever row 3 holds
C28_SetupPreservesData ==
  [][SheetSetupStep => store' = store]_vars

(***************************************************************************)
(* The two store clients compared, on the calls of Spec.                   *)
(***************************************************************************)
\* the ids of the batch the store did not hold when the call began ('' is
\* never reported by a read)
NewIds == BatchIds(payments) \ ExistingIdsOf(store_start)

\* C22: a call in which no store operation failed returns, in either client,
\* with one row added for every message_id of the batch the store did not
\* hold, created = the number of these ids and skipped = the other records
C22_BackendEquivalence ==
  ( /\ Finished
    /\ read_status /= "failed"
    /\ WritesSucceeded )
  => ( /\ pc = "returned"
       /\ store = [m \in MessageIds |-> store_start[m] + (IF m \in NewIds THEN 1 ELSE 0)]
       /\ created_count = Cardinality(NewIds)
       /\ skipped_count = Len(payments) - Cardinality(NewIds) )

\* what the read of the existing ids gave the call
ReadIds == IF read_status = "ok" THEN ExistingIdsOf(store_start) ELSE {}

\* the known set when record k is looked at: the ids read, and the ids of the
\* earlier records that were staged (sheet) or written (database)
KnownBy(k) ==
  ReadIds \cup {Iterated[j].message_id :
                  j \in {i \in 1..(k - 1) : outcome[i] \in {"Staged", "Created"}}}

\* C25 as claimed: once a record that is no duplicate has been taken up, a
\* later record of the batch with the same message_id is SkippedDuplicate,
\* also when the write of the first one failed
C25_AddedWhenStaged ==
  \A j, k \in 1..Len(outcome) :
    ( /\ j < k
      /\ Iterated[j].message_id = Iterated[k].message_id
      /\ outcome[j] /= "SkippedDuplicate" )
    => outcome[k] = "SkippedDuplicate"

\* C25 as amended: the sheet client adds the id to the known set when the row
\* is staged, the database client when the write of the record has
\* succeeded; a record is SkippedDuplicate exactly when its id was read from
\* the store or belongs to an earlier record that was staged or written, so
\* after a failed write the next record with that id is written itself
C25_KnownSetUpdate ==
  /\ \A k \in 1..Len(outcome) :
       outcome[k] = "SkippedDuplicate" <=> Iterated[k].message_id \in KnownBy(k)
  /\ pc = "loop" => existing_ids = KnownBy(Len(outcome) + 1)

\* the write of the first record failed and the second record, with the same
\* message_id, was written
C25_Witness ==
  /\ backend = "notion"
  /\ pc = "returned"
  /\ Len(payments) = 2
  /\ payments[1].message_id = payments[2].message_id
  /\ outcome = <<"Failed", "Created">>

\* C26: the records a returning call has written reached the store newest
\* first: of two written records the one written earlier is not the older
C26_NewestFirstWrites ==
  pc = "returned" =>
    \A j, k \in 1..Len(outcome) :
      ( /\ j < k
        /\ outcome[j] = "Created"
        /\ outcome[k] = "Created" )
      => ParseDateForSorting(Iterated[j]).t >= ParseDateForSorting(Iterated[k]).t

(***************************************************************************)
(* The order of the list extract_all_payments returns, on the runs of      *)
(* SpecMail.                                                               *)
(***************************************************************************)
\* position of a service in the iteration over self.services
ServiceIndex(name) == CHOOSE i \in 1..Len(Services) : Services[i] = name

\* C27: the list of a run holds the records service by service in the order
\* wise, paypal, remitly, billcom, within a service in the reverse of the
\* (ascending) search result, and every record built is in it, also when
\* another service produced a record with the same message_id
C27_ExtractionOrder ==
  /\ \A i, j \in 1..Len(all_payments) :
       i < j =>
         \/ ServiceIndex(all_payments[i].service) < ServiceIndex(all_payments[j].service)
         \/ /\ all_payments[i].service = all_payments[j].service
            /\ all_payments[i].message_id > all_payments[j].message_id
  /\ mpc = "returned" => Len(all_payments) = Len(built_all)

\* a run returned two records of one service and, from a later service, a
\* record with the message_id of one of them
C27_Witness ==
  /\ mpc = "returned"
  /\ \E i, j, k \in 1..Len(all_payments) :
       /\ i < j /\ j < k
       /\ all_payments[i].service = all_payments[j].service
       /\ all_payments[k].service /= all_payments[i].service
       /\ all_payments[k].message_id = all_payments[i].message_id

(***************************************************************************)
(* payment_extractor(request), the entry point: the request is parsed, the *)
(* configuration validated, the mailbox read, the database set up and the *)
(* records handed to the database client; every exception becomes an       *)
(* error response.                                                         *)
(***************************************************************************)
\* the except branch: {"status": "error", "message": ...}, 500
ErrorResponse(cause) == [NoResponse EXCEPT !.status = "error", !.message = cause]

\* variant: the configuration is validated before the test flag is looked at
TestRequest_ValidatesFirst ==
  /\ tpc = "request"
  /\ is_test
  /\ response' = IF config_loaded
                 THEN [NoResponse EXCEPT !.status = "healthy",
                                         !.message = "running",
                                         !.config_loaded = config_loaded]
                 ELSE ErrorResponse("configuration")
  /\ tpc' = "responded"
  /\ UNCHANGED <<schema, sheetVars, is_test, config_loaded, amounts_numeric>>
  /\ UNCHANGED <<syncVars, mailVars, extractVars>>

\* `if is_test`: the health answer, before anything else is looked at
TestRequest ==
  /\ tpc = "request"
  /\ is_test
  /\ response' = [NoResponse EXCEPT !.status = "healthy",
                                    !.message = "running",
                                    !.config_loaded = config_loaded]
  /\ tpc' = "responded"
  /\ UNCHANGED <<schema, sheetVars, is_test, config_loaded, amounts_numeric>>
  /\ UNCHANGED <<syncVars, mailVars, extractVars>>

\* no test: missing_config raises ValueError, else the extractor is built
ValidateConfiguration ==
  /\ tpc = "request"
  /\ ~is_test
  /\ IF config_loaded
     THEN tpc' = "extract" /\ UNCHANGED response
     ELSE tpc' = "responded" /\ response' = ErrorResponse("configuration")
  /\ UNCHANGED <<schema, sheetVars, is_test, config_loaded, amounts_numeric>>
  /\ UNCHANGED <<syncVars, mailVars, extractVars>>

\* extractor.extract_all_payments() raised
ExtractionRaised ==
  /\ tpc = "extract"
  /\ mpc = "raised"
  /\ response' = ErrorResponse("mailbox")
  /\ tpc' = "responded"
  /\ UNCHANGED <<schema, sheetVars, is_test, config_loaded, amounts_numeric>>
  /\ UNCHANGED <<syncVars, mailVars, extractVars>>

\* `if not payments`: success, nothing processed
NoPayments ==
  /\ tpc = "extract"
  /\ mpc = "returned"
  /\ all_payments = <<>>
  /\ response' = [NoResponse EXCEPT !.status = "success", !.message = "No new payments found"]
  /\ tpc' = "responded"
  /\ UNCHANGED <<schema, sheetVars, is_test, config_loaded, amounts_numeric>>
  /\ UNCHANGED <<syncVars, mailVars, extractVars>>

\* the list handed to the database client is the list the extractor returned:
\* the same dicts, of which the sync reads message_id (and the sheet client
\* date).  Messages are numbered in the order of their arrival: the Date
\* header of message n is the n-th timestamp
HandedOver ==
  [k \in 1..Len(all_payments) |->
     [message_id |-> all_payments[k].message_id, date |-> all_payments[k].message_id]]

\* variant: the database client is built whatever the extractor returned
NotionClientCreated_Always ==
  /\ tpc = "extract"
  /\ mpc = "returned"
  /\ HandedOver \in Batches
  /\ tpc' = "setup"
  /\ UNCHANGED <<schema, sheetVars, triggerVars>>
  /\ UNCHANGED <<syncVars, mailVars, extractVars>>

\* payments were found: the database client is built and set-up begins (the
\* runs followed are those whose list is one of Batches)
NotionClientCreated ==
  /\ tpc = "extract"
  /\ mpc = "returned"
  /\ all_payments /= <<>>
  /\ HandedOver \in Batches
  /\ tpc' = "setup"
  /\ UNCHANGED <<schema, sheetVars, triggerVars>>
  /\ UNCHANGED <<syncVars, mailVars, extractVars>>

\* ensure_database_setup() raised
SetupRaised ==
  /\ tpc = "aborted"
  /\ response' = ErrorResponse("setup")
  /\ tpc' = "responded"
  /\ UNCHANGED <<schema, sheetVars, is_test, config_loaded, amounts_numeric>>
  /\ UNCHANGED <<syncVars, mailVars, extractVars>>

\* notion_client.create_payment_records(payments)
CreatePaymentRecords ==
  /\ tpc = "sync"
  /\ Call(HandedOver)

\* the response after create_payment_records returned: len(payments), the
\* result, and the summary, whose total_amount is sum(float(amount)) over all
\* payments.  float() raises ValueError on an amount that is no number; it
\* cannot when every record was written, as _create_single_payment_record
\* has applied float() to each of these amounts already
Respond ==
  /\ tpc = "sync"
  /\ pc = "returned"
  /\ \E numeric \in BOOLEAN :
       /\ created_count = Len(payments) => numeric
       /\ amounts_numeric' = numeric
       /\ response' =
            IF numeric
            THEN [NoResponse EXCEPT !.status = "success",
                                    !.payments_processed = Len(payments),
                                    !.notion_result = <<created_count, skipped_count, failed_count>>]
            ELSE ErrorResponse("amount")
  /\ tpc' = "responded"
  /\ UNCHANGED <<schema, sheetVars, is_test, config_loaded>>
  /\ UNCHANGED <<syncVars, mailVars, extractVars>>

TriggerNext ==
  \/ TestRequest
  \/ ValidateConfiguration
  \/ (tpc = "extract" /\ MailNext)
  \/ ExtractionRaised
  \/ NoPayments
  \/ NotionClientCreated
  \/ ValidateDatabaseSchema
  \/ UpdateDatabaseSchema
  \/ SetupRaised
  \/ CreatePaymentRecords
  \/ NotionGetExistingMessageIds
  \/ NotionSkipDuplicate
  \/ NotionCreateOk
  \/ NotionCreateFail
  \/ NotionReturn
  \/ Respond

\* a request arrives: with or without the test flag, with the secrets loaded
\* or not, the database (its id is part of the configuration) in any state
TriggerInit ==
  /\ backend = "notion"
  /\ SyncIdle
  /\ MailIdle
  /\ ExtractIdle
  /\ SheetIdle
  /\ tpc = "request"
  /\ schema \in Schemas \ {"absent"}
  /\ is_test \in BOOLEAN
  /\ config_loaded \in BOOLEAN
  /\ amounts_numeric = TRUE
  /\ response = NoResponse

SpecTrigger == TriggerInit /\ [][TriggerNext]_vars

\* C23: the answer carries the error status only when the mailbox connection
\* failed or the set-up of the store failed
C23_ErrorOnlyWhenFatal ==
  response.status = "error" => response.message \in {"mailbox", "setup"}

\* C24: a request with the test flag is answered with the health status and
\* the configuration status, whatever the configuration, and no step of the
\* mailbox run, of the set-up or of the sync is taken for it
C24_TestTouchesNothing ==
  is_test =>
    /\ tpc \in {"request", "responded"}
    /\ mpc = "idle" /\ ~conn_open
    /\ pc = "idle" /\ store = EmptyStore
    /\ tpc = "responded" =>
         (response.status = "healthy" /\ response.config_loaded = config_loaded)

\* a test request was answered although the configuration is not loaded
C24_Witness ==
  /\ is_test
  /\ ~config_loaded
  /\ tpc = "responded"
  /\ response.status = "healthy"

\* the database is being set up, or create_payment_records has been called
StoreTouched == tpc \in {"setup", "update", "sync", "aborted"} \/ pc /= "idle"

\* C29: the store is touched only after extract_all_payments has returned a
\* list that is not empty, the mailbox closed and logged out; a run whose
\* extraction raised or found nothing leaves the store alone
C29_StoreAfterExtraction ==
  /\ StoreTouched => (mpc = "returned" /\ logged_out /\ all_payments /= <<>>)
  /\ (mpc /= "returned" \/ all_payments = <<>>) => store = EmptyStore

\* records were written after the mailbox run had returned and logged out
C29_Witness ==
  /\ mpc = "returned"
  /\ logged_out
  /\ tpc = "sync"
  /\ pc = "returned"
  /\ created_count = Len(all_payments)
  /\ store /= EmptyStore

\* C30: once create_payment_records has returned its counts the answer is a
\* success carrying these counts and the batch size, and no run answers with
\* the error status after it has written a record
C30_SuccessAfterSync ==
  /\ (tpc = "responded" /\ pc = "returned") =>
       /\ response.status = "success"
       /\ response.payments_processed = Len(payments)
       /\ response.notion_result = <<created_count, skipped_count, failed_count>>
  /\ response.status = "error" => store = EmptyStore

====
